---- MODULE Spec2Model ----
(***************************************************************************)
(* Model of the talib package: the indicator taxonomy and its column       *)
(* validation (base.py), the registries and the discovery scans (base.py,  *)
(* __init__.py), the TA facade (base.py) and the AMA recursion             *)
(* (indicators/ama.py).                                                    *)
(***************************************************************************)
EXTENDS Integers, Sequences, FiniteSets, TLC

VARIABLES unit,                 \* the indicator object of the last direct construction
          CONCRETE_INDICATORS,  \* base.py registry: name -> class
          INDICATORS,           \* __init__.py registry: name -> class
          pkg,                  \* "unloaded" | "imported" (talib/__init__.py has run)
          ta,                   \* the TA facade of the session
          stdCalls,             \* calls of standardize_ohlcv_columns made for ta
          accesses,             \* ohlc_wrapper calls made on ta
          req,                  \* the last indicator request made through ta
          available,            \* the last result of ta.available_indicators
          flag,                 \* hasattr(TA, '_indicators_imported')
          pc,                   \* thread -> position in TA._import_indicators
          idx,                  \* thread -> number of files of the glob already handled
          scans,                \* number of scan bodies entered so far
          sysModules,           \* indicator modules in sys.modules
          bars,                 \* AMA: the table, a sequence of [high, low, close]
          period,               \* AMA: self.period
          ama,                  \* AMA: the output array
          i,                    \* AMA: loop index of the recursion (0-based)
          amaPc                 \* AMA: position in compute()

vars == <<unit, CONCRETE_INDICATORS, INDICATORS, pkg, ta, stdCalls, accesses, req,
          available, flag, pc, idx, scans, sysModules, bars, period, ama, i, amaPc>>

unitVars   == <<unit>>
facadeVars == <<CONCRETE_INDICATORS, INDICATORS, pkg, ta, stdCalls, accesses, req, available>>
scanVars   == <<flag, pc, idx, scans, sysModules>>
amaVars    == <<bars, period, ama, i, amaPc>>

(***************************************************************************)
(* The class taxonomy                                                      *)
(***************************************************************************)

\* The classes of base.py, the five indicator classes under src/, and four
\* further classes that meet the registration guards: RAW derives from Indicator
\* alone, STUB defines no compute, AMA_series is a second class named AMA and
\* PLAIN is no indicator.
Classes == {"Indicator", "SeriesIndicator", "OHLCIndicator", "OHLCVIndicator",
            "AMA", "KAMA", "MABW", "STOCH_MACD", "VPN",
            "RAW", "STUB", "AMA_series", "PLAIN"}

\* The direct base class of each class ("object" for the root).
Base == [c \in Classes |->
           CASE c = "Indicator"       -> "object"
             [] c = "SeriesIndicator" -> "Indicator"
             [] c = "OHLCIndicator"   -> "Indicator"
             [] c = "OHLCVIndicator"  -> "OHLCIndicator"
             [] c = "AMA"             -> "OHLCIndicator"
             [] c = "KAMA"            -> "SeriesIndicator"
             [] c = "MABW"            -> "SeriesIndicator"
             [] c = "STOCH_MACD"      -> "OHLCIndicator"
             [] c = "VPN"             -> "OHLCVIndicator"
             [] c = "RAW"             -> "Indicator"
             [] c = "STUB"            -> "SeriesIndicator"
             [] c = "AMA_series"      -> "SeriesIndicator"
             [] c = "PLAIN"           -> "object"]

\* cls.__name__
ClassName == [c \in Classes |-> IF c = "AMA_series" THEN "AMA" ELSE c]

\* The classes whose body contains a def compute.
DefinesCompute == {"Indicator", "AMA", "KAMA", "MABW", "STOCH_MACD", "VPN",
                   "RAW", "AMA_series", "PLAIN"}

RECURSIVE IsSubclass(_, _)
\* issubclass(c, d)
IsSubclass(c, d) ==
  IF c = d THEN TRUE
  ELSE IF c = "object" THEN FALSE
  ELSE IsSubclass(Base[c], d)

RECURSIVE ComputeOwner(_)
\* The class whose compute attribute lookup on c finds (the method resolution order).
ComputeOwner(c) ==
  IF c \in DefinesCompute THEN c ELSE ComputeOwner(Base[c])

RECURSIVE ValidatorOwner(_)
\* The class whose _validate_columns attribute lookup on c finds.
ValidatorOwner(c) ==
  IF c \in {"Indicator", "SeriesIndicator", "OHLCIndicator", "OHLCVIndicator"}
  THEN c ELSE ValidatorOwner(Base[c])

(***************************************************************************)
(* Tables, series and the column standardizer                              *)
(***************************************************************************)

\* Column names as callers spell them.
RawColumns == {"Open", "HIGH", "low", "Close", "Volume"}

\* The canonical column names.
CanonicalColumns == {"open", "high", "low", "close", "volume"}

\* The canonical lowercase name of a column name; canonical names map to themselves.
Canonical == [r \in RawColumns \cup CanonicalColumns |->
                CASE r \in {"Open", "open"}     -> "open"
                  [] r \in {"HIGH", "high"}     -> "high"
                  [] r \in {"low"}              -> "low"
                  [] r \in {"Close", "close"}   -> "close"
                  [] r \in {"Volume", "volume"} -> "volume"]

\* standardize_ohlcv_columns(table): the column names of the result.
standardize_ohlcv_columns(cols) == {Canonical[r] : r \in cols}

DefaultColumn == "close"

\* The values a caller can pass as a data source.
DataFrames == {[kind |-> "DataFrame", cols |-> s] : s \in SUBSET RawColumns}
SeriesArg  == [kind |-> "Series", cols |-> {}]
OtherArg   == [kind |-> "list", cols |-> {}]
NoneArg    == [kind |-> "None", cols |-> {}]
Sources    == DataFrames \cup {SeriesArg, OtherArg}

\* The column selectors a caller passes.
ColumnArgs == {"close", "open"}

(***************************************************************************)
(* Column validation and Indicator.__init__                                *)
(***************************************************************************)

NoError == [exc |-> "none", msg |-> "none", missing |-> {}]

\* SeriesIndicator._validate_columns
SeriesValidate(data, column) ==
  IF column \notin data
  THEN [exc |-> "ValueError", msg |-> "Column not found", missing |-> {column}]
  ELSE NoError

\* OHLCIndicator._validate_columns
OHLCValidate(data) ==
  LET required == {"open", "high", "low", "close"} IN
  IF ~(required \subseteq data)
  THEN [exc |-> "ValueError", msg |-> "Missing required columns",
        missing |-> required \ data]
  ELSE NoError

\* OHLCVIndicator._validate_columns
OHLCVValidate(data) ==
  LET super == OHLCValidate(data) IN
  IF super.exc # "none" THEN super
  ELSE IF "volume" \notin data
  THEN [exc |-> "ValueError", msg |-> "Missing required column: volume",
        missing |-> {"volume"}]
  ELSE NoError

\* self._validate_columns() as dispatched on the class of self.
ValidateColumns(cls, data, column) ==
  CASE ValidatorOwner(cls) = "SeriesIndicator" -> SeriesValidate(data, column)
    [] ValidatorOwner(cls) = "OHLCIndicator"   -> OHLCValidate(data)
    [] ValidatorOwner(cls) = "OHLCVIndicator"  -> OHLCVValidate(data)
    [] OTHER                                   -> NoError

\* The exception of self.data[column] (base.py line 30), raised before validation.
SelectColumn(data, column) ==
  IF column \in data THEN NoError
  ELSE [exc |-> "KeyError", msg |-> "KeyError", missing |-> {column}]

\* Indicator.__init__ that takes the table as it is given.
IndicatorInit_NoStandardize(cls, source, column) ==
  IF source.kind = "DataFrame" THEN
    LET data == source.cols
        sel  == SelectColumn(data, column)
        val  == ValidateColumns(cls, data, column)
        err  == IF sel.exc # "none" THEN sel ELSE val
    IN [cls |-> cls, kind |-> "DataFrame", data |-> data, column |-> column,
        err |-> err, validated |-> (sel.exc = "none"), std |-> 0,
        computeStarted |-> FALSE]
  ELSE IF source.kind = "Series" THEN
    [cls |-> cls, kind |-> "Series", data |-> {"close"}, column |-> column,
     err |-> NoError, validated |-> FALSE, std |-> 0, computeStarted |-> FALSE]
  ELSE
    [cls |-> cls, kind |-> source.kind, data |-> {}, column |-> column,
     err |-> [exc |-> "TypeError", msg |-> "Input must be DataFrame or Series",
              missing |-> {}],
     validated |-> FALSE, std |-> 0, computeStarted |-> FALSE]

\* Indicator.__init__(source, column): the object it leaves, with the exception
\* that ended it, whether _validate_columns was called and how often the
\* standardizer was called.
IndicatorInit(cls, source, column) ==
  IF source.kind = "DataFrame" THEN
    LET data == standardize_ohlcv_columns(source.cols)
        sel  == SelectColumn(data, column)
        val  == ValidateColumns(cls, data, column)
        err  == IF sel.exc # "none" THEN sel ELSE val
    IN [cls |-> cls, kind |-> "DataFrame", data |-> data, column |-> column,
        err |-> err, validated |-> (sel.exc = "none"), std |-> 1,
        computeStarted |-> FALSE]
  ELSE IF source.kind = "Series" THEN
    [cls |-> cls, kind |-> "Series", data |-> {"close"}, column |-> column,
     err |-> NoError, validated |-> FALSE, std |-> 0, computeStarted |-> FALSE]
  ELSE
    [cls |-> cls, kind |-> source.kind, data |-> {}, column |-> column,
     err |-> [exc |-> "TypeError", msg |-> "Input must be DataFrame or Series",
              missing |-> {}],
     validated |-> FALSE, std |-> 0, computeStarted |-> FALSE]

\* No indicator object yet.
NoUnit == [cls |-> "none", kind |-> "None", data |-> {}, column |-> DefaultColumn,
           err |-> NoError, validated |-> FALSE, std |-> 0, computeStarted |-> FALSE]

\* The classes a caller instantiates directly.
UnitClasses == {"AMA", "KAMA", "MABW", "STOCH_MACD", "VPN", "RAW"}

\* The columns the shape contract of cls requires of a unit's data.
ContractColumns(cls, column) ==
  CASE ValidatorOwner(cls) = "SeriesIndicator" -> {column}
    [] ValidatorOwner(cls) = "OHLCIndicator"   -> {"open", "high", "low", "close"}
    [] ValidatorOwner(cls) = "OHLCVIndicator"  -> {"open", "high", "low", "close", "volume"}
    [] OTHER                                   -> {}

\* cls(source, column=column), called directly.
Construct(cls, source, column) ==
  /\ unit' = IndicatorInit(cls, source, column)
  /\ UNCHANGED <<facadeVars, scanVars, amaVars>>

\* unit.compute() entered on an object whose construction returned.
Compute ==
  /\ unit.cls # "none"
  /\ unit.err.exc = "none"
  /\ ~unit.computeStarted
  /\ unit' = [unit EXCEPT !.computeStarted = TRUE]
  /\ UNCHANGED <<facadeVars, scanVars, amaVars>>

(***************************************************************************)
(* The registries and the import-time discovery                            *)
(***************************************************************************)

\* The empty dict.
EmptyRegistry == [n \in {} |-> "none"]

\* dict assignment reg[name] = cls (an existing key is overwritten).
Assign(reg, name, cls) ==
  [n \in DOMAIN reg \cup {name} |-> IF n = name THEN cls ELSE reg[n]]

\* register_indicator without the comparison of compute with Indicator.compute.
register_indicator_NoComputeCheck(reg, obj) ==
  IF /\ obj \in Classes
     /\ IsSubclass(obj, "Indicator")
     /\ obj # "Indicator"
  THEN Assign(reg, ClassName[obj], obj)
  ELSE reg

\* register_indicator(obj): CONCRETE_INDICATORS afterwards. "helper" is an object
\* that is not a class.
register_indicator(reg, obj) ==
  IF /\ obj \in Classes
     /\ IsSubclass(obj, "Indicator")
     /\ obj # "Indicator"
     /\ ComputeOwner(obj) # "Indicator"
  THEN Assign(reg, ClassName[obj], obj)
  ELSE reg

\* The files of the indicators directory: the five modules under src/ and one
\* further module, in the order the glob yields them.
Modules == <<"ama", "kama", "mabw", "stoch_macd", "vpn", "custom">>

\* The classes a module defines under @register_indicator, in definition order.
Decorated == [m \in {Modules[k] : k \in 1..Len(Modules)} |->
                CASE m = "ama"        -> <<"AMA">>
                  [] m = "kama"       -> <<"KAMA">>
                  [] m = "mabw"       -> <<"MABW">>
                  [] m = "stoch_macd" -> <<"STOCH_MACD">>
                  [] m = "vpn"        -> <<"VPN">>
                  [] m = "custom"     -> <<"RAW", "STUB">>]

\* vars(module): the objects in the namespace of a module, the imported ones included.
Namespace == [m \in {Modules[k] : k \in 1..Len(Modules)} |->
                CASE m = "ama"        -> {"AMA", "OHLCIndicator", "helper"}
                  [] m = "kama"       -> {"KAMA", "SeriesIndicator", "helper"}
                  [] m = "mabw"       -> {"MABW", "SeriesIndicator", "helper"}
                  [] m = "stoch_macd" -> {"STOCH_MACD", "OHLCIndicator", "helper"}
                  [] m = "vpn"        -> {"VPN", "OHLCVIndicator", "helper"}
                  [] m = "custom"     -> {"RAW", "STUB", "Indicator", "SeriesIndicator",
                                          "helper"}]

\* obj.__module__ == module.__name__
DefinedIn(obj, m) ==
  \E k \in 1..Len(Decorated[m]) : Decorated[m][k] = obj

RECURSIVE RegisterAll(_, _)
\* Executing the body of a module: its decorators run in definition order.
RegisterAll(reg, defs) ==
  IF defs = <<>> THEN reg
  ELSE RegisterAll(register_indicator(reg, Head(defs)), Tail(defs))

RECURSIVE AssignAll(_, _)
\* INDICATORS[name] = obj for each object of a set (the names are distinct).
AssignAll(reg, objs) ==
  IF objs = {} THEN reg
  ELSE LET o == CHOOSE x \in objs : TRUE
       IN AssignAll(Assign(reg, ClassName[o], o), objs \ {o})

\* The inner loop of _discover_indicators on one imported module.
Collect(reg, m) ==
  AssignAll(reg, {o \in Namespace[m] :
                    /\ o \in Classes
                    /\ IsSubclass(o, "Indicator")
                    /\ DefinedIn(o, m)})

RECURSIVE Discover(_, _, _, _)
\* The loop of _discover_indicators over the files from position k on; the import
\* of a module in failing raises and is reported as a warning.
Discover(concrete, all, k, failing) ==
  IF k > Len(Modules) THEN [concrete |-> concrete, all |-> all]
  ELSE IF Modules[k] \in failing THEN Discover(concrete, all, k + 1, failing)
  ELSE Discover(RegisterAll(concrete, Decorated[Modules[k]]),
                Collect(all, Modules[k]), k + 1, failing)

\* At most this many modules fail to import.
MaxFailing == 1

\* import talib: _discover_indicators() runs in talib/__init__.py.
PackageImport(failing) ==
  /\ pkg = "unloaded"
  /\ LET d == Discover(EmptyRegistry, EmptyRegistry, 1, failing) IN
       /\ CONCRETE_INDICATORS' = d.concrete
       /\ INDICATORS' = d.all
  /\ pkg' = "imported"
  /\ scans' = scans + 1
  /\ sysModules' = {Modules[k] : k \in 1..Len(Modules)} \ failing
  /\ UNCHANGED <<ta, stdCalls, accesses, req, available, flag, pc, idx,
                 unitVars, amaVars>>

\* The objects a caller passes to register_indicator after the import.
RegisterArgs == {"helper", "Indicator", "PLAIN", "AMA_series", "AMA", "STUB", "RAW"}

\* register_indicator(obj), applied by a caller.
Register(obj) ==
  /\ pkg = "imported"
  /\ CONCRETE_INDICATORS' = register_indicator(CONCRETE_INDICATORS, obj)
  /\ UNCHANGED <<INDICATORS, pkg, ta, stdCalls, accesses, req, available,
                 unitVars, scanVars, amaVars>>

(***************************************************************************)
(* The TA facade                                                           *)
(***************************************************************************)

\* The values a caller passes as ohlc and as series: the tables that have the
\* open, high and low columns, a series, a list and None.
InitArgs == {d \in DataFrames : {"Open", "HIGH", "low"} \subseteq d.cols}
              \cup {SeriesArg, OtherArg, NoneArg}

\* No facade.
NoTA == [state |-> "none", ohlc |-> "None", series |-> "None", source_type |-> "none",
         source |-> {}, exc |-> "none", std |-> 0]

\* TA.__init__ that consults series before ohlc.
TAInit_SeriesFirst(ohlc, series) ==
  IF series.kind # "None" THEN
    IF series.kind # "Series"
    THEN [state |-> "failed", ohlc |-> ohlc.kind, series |-> series.kind,
          source_type |-> "none", source |-> {}, exc |-> "TypeError", std |-> 0]
    ELSE [state |-> "ok", ohlc |-> ohlc.kind, series |-> series.kind,
          source_type |-> "series", source |-> {}, exc |-> "none", std |-> 0]
  ELSE IF ohlc.kind # "None" THEN
    IF ohlc.kind # "DataFrame"
    THEN [state |-> "failed", ohlc |-> ohlc.kind, series |-> series.kind,
          source_type |-> "none", source |-> {}, exc |-> "TypeError", std |-> 0]
    ELSE [state |-> "ok", ohlc |-> ohlc.kind, series |-> series.kind,
          source_type |-> "ohlc", source |-> standardize_ohlcv_columns(ohlc.cols),
          exc |-> "none", std |-> 1]
  ELSE [state |-> "failed", ohlc |-> ohlc.kind, series |-> series.kind,
        source_type |-> "none", source |-> {}, exc |-> "ValueError", std |-> 0]

\* TA.__init__(ohlc, series) after self._import_indicators(): the facade it leaves
\* (state "failed": the constructor raised exc and no object exists), with the
\* number of standardizer calls made.
TAInit(ohlc, series) ==
  IF ohlc.kind # "None" THEN
    IF ohlc.kind # "DataFrame"
    THEN [state |-> "failed", ohlc |-> ohlc.kind, series |-> series.kind,
          source_type |-> "none", source |-> {}, exc |-> "TypeError", std |-> 0]
    ELSE [state |-> "ok", ohlc |-> ohlc.kind, series |-> series.kind,
          source_type |-> "ohlc", source |-> standardize_ohlcv_columns(ohlc.cols),
          exc |-> "none", std |-> 1]
  ELSE IF series.kind # "None" THEN
    IF series.kind # "Series"
    THEN [state |-> "failed", ohlc |-> ohlc.kind, series |-> series.kind,
          source_type |-> "none", source |-> {}, exc |-> "TypeError", std |-> 0]
    ELSE [state |-> "ok", ohlc |-> ohlc.kind, series |-> series.kind,
          source_type |-> "series", source |-> {}, exc |-> "none", std |-> 0]
  ELSE [state |-> "failed", ohlc |-> ohlc.kind, series |-> series.kind,
        source_type |-> "none", source |-> {}, exc |-> "ValueError", std |-> 0]

\* No request.
NoRequest == [name |-> "none", cls |-> "none", source_type |-> "none",
              column |-> DefaultColumn, err |-> NoError, wrapper |-> "none",
              constructed |-> FALSE, validated |-> FALSE, computeStarted |-> FALSE,
              std |-> 0]

\* A request that TA.__getattr__ itself ended with an exception.
Refused(facade, name, cls, column, exc, msg) ==
  [name |-> name, cls |-> cls, source_type |-> facade.source_type, column |-> column,
   err |-> [exc |-> exc, msg |-> msg, missing |-> {}], wrapper |-> "none",
   constructed |-> FALSE, validated |-> FALSE, computeStarted |-> FALSE, std |-> 0]

\* A request whose wrapper ran: the unit was instantiated and, when its
\* constructor returned, compute() was called.
Dispatched(facade, name, wrapper, u) ==
  [name |-> name, cls |-> u.cls, source_type |-> facade.source_type,
   column |-> u.column, err |-> u.err, wrapper |-> wrapper,
   constructed |-> TRUE, validated |-> u.validated,
   computeStarted |-> (u.err.exc = "none"), std |-> u.std]

\* TA.__getattr__ without the issubclass test of the series branch.
GetAttrCall_NoSourceCheck(facade, registry, name, column) ==
  IF name \notin DOMAIN registry
  THEN Refused(facade, name, "none", column, "AttributeError", "not found")
  ELSE
    LET indicator_cls == registry[name] IN
    IF facade.source_type = "ohlc"
    THEN Dispatched(facade, name, "ohlc_wrapper",
                    IndicatorInit(indicator_cls,
                                  [kind |-> "DataFrame", cols |-> facade.source], column))
    ELSE Dispatched(facade, name, "series_wrapper",
                    IndicatorInit(indicator_cls, SeriesArg, column))

\* ta.<name>(column=column): TA.__getattr__ and the call of the wrapper it returns.
GetAttrCall(facade, registry, name, column) ==
  IF name \notin DOMAIN registry
  THEN Refused(facade, name, "none", column, "AttributeError", "not found")
  ELSE
    LET indicator_cls == registry[name] IN
    IF facade.source_type = "ohlc"
    THEN Dispatched(facade, name, "ohlc_wrapper",
                    IndicatorInit(indicator_cls,
                                  [kind |-> "DataFrame", cols |-> facade.source], column))
    ELSE IF IsSubclass(indicator_cls, "OHLCIndicator")
            \/ IsSubclass(indicator_cls, "OHLCVIndicator")
    THEN Refused(facade, name, indicator_cls, column, "ValueError",
                 "requires OHLCV data")
    ELSE Dispatched(facade, name, "series_wrapper",
                    IndicatorInit(indicator_cls, SeriesArg, column))

\* The names a caller requests; "NOPE" is never registered.
RequestNames == {"AMA", "KAMA", "MABW", "STOCH_MACD", "VPN", "RAW", "STUB", "NOPE"}

\* sorted(): the order of Python strings on the names of the model.
NameOrder == <<"AMA", "KAMA", "MABW", "NOPE", "RAW", "STOCH_MACD", "STUB", "VPN">>

\* The position of a name in the string order.
Rank(n) == CHOOSE k \in 1..Len(NameOrder) : NameOrder[k] = n

RECURSIVE Sorted(_)
\* sorted(names)
Sorted(names) ==
  IF names = {} THEN <<>>
  ELSE LET least == CHOOSE n \in names : \A o \in names : Rank(n) <= Rank(o)
       IN <<least>> \o Sorted(names \ {least})

\* TA.available_indicators without the test of the source type.
available_indicators_NoFilter(facade, registry) ==
  Sorted(DOMAIN registry)

\* TA.available_indicators
available_indicators(facade, registry) ==
  Sorted({name \in DOMAIN registry :
            \/ facade.source_type = "ohlc"
            \/ ~(\/ IsSubclass(registry[name], "OHLCIndicator")
                 \/ IsSubclass(registry[name], "OHLCVIndicator"))})

\* No available_indicators result.
NoList == [source_type |-> "none", registry |-> EmptyRegistry, names |-> <<>>]

\* Wrapper calls counted on one facade.
MaxAccesses == 2

\* TA(ohlc, series) in a single-threaded caller. _import_indicators runs first: the
\* first call scans the files (the modules are in sys.modules already, and a module
\* whose import raised at package import raises again) and sets the flag.
NewTA(ohlc, series) ==
  /\ pkg = "imported"
  /\ ta' = TAInit(ohlc, series)
  /\ stdCalls' = ta'.std
  /\ accesses' = 0
  /\ req' = NoRequest
  /\ available' = NoList
  /\ flag' = TRUE
  /\ scans' = IF flag THEN scans ELSE scans + 1
  /\ UNCHANGED <<CONCRETE_INDICATORS, INDICATORS, pkg, pc, idx, sysModules,
                 unitVars, amaVars>>

\* ta.<name>(column=column)
Request(name, column) ==
  /\ ta.state = "ok"
  /\ accesses < MaxAccesses
  /\ req' = GetAttrCall(ta, CONCRETE_INDICATORS, name, column)
  /\ accesses' = IF req'.wrapper # "none" THEN accesses + 1 ELSE accesses
  /\ stdCalls' = stdCalls + req'.std
  /\ UNCHANGED <<CONCRETE_INDICATORS, INDICATORS, pkg, ta, available,
                 unitVars, scanVars, amaVars>>

\* ta.available_indicators
ListAvailable ==
  /\ ta.state = "ok"
  /\ available' = [source_type |-> ta.source_type, registry |-> CONCRETE_INDICATORS,
                   names |-> available_indicators(ta, CONCRETE_INDICATORS)]
  /\ UNCHANGED <<CONCRETE_INDICATORS, INDICATORS, pkg, ta, stdCalls, accesses, req,
                 unitVars, scanVars, amaVars>>

(***************************************************************************)
(* TA._import_indicators under concurrent callers                          *)
(***************************************************************************)

\* Threads constructing TA objects.
NumThreads == 2

Threads == 1..NumThreads

\* A thread enters TA.__init__ and evaluates hasattr(TA, '_indicators_imported').
CheckFlag(t) ==
  /\ pkg = "imported"
  /\ pc[t] = "check"
  /\ IF flag
     THEN /\ pc' = [pc EXCEPT ![t] = "done"]
          /\ UNCHANGED <<scans, idx>>
     ELSE /\ pc' = [pc EXCEPT ![t] = "scan"]
          /\ scans' = scans + 1
          /\ idx' = [idx EXCEPT ![t] = 0]
  /\ UNCHANGED <<flag, sysModules, facadeVars, unitVars, amaVars>>

\* One iteration of the loop over the files: importlib.import_module returns the
\* module of sys.modules, or raises again and the warning is printed.
ImportNext(t) ==
  /\ pc[t] = "scan"
  /\ idx[t] < Len(Modules)
  /\ idx' = [idx EXCEPT ![t] = idx[t] + 1]
  /\ UNCHANGED <<flag, pc, scans, sysModules, facadeVars, unitVars, amaVars>>

\* TA._indicators_imported = True, after the loop.
SetFlag(t) ==
  /\ pc[t] = "scan"
  /\ idx[t] = Len(Modules)
  /\ flag' = TRUE
  /\ pc' = [pc EXCEPT ![t] = "done"]
  /\ UNCHANGED <<idx, scans, sysModules, facadeVars, unitVars, amaVars>>

\* The thread constructs a further TA.
Again(t) ==
  /\ pc[t] = "done"
  /\ pc' = [pc EXCEPT ![t] = "check"]
  /\ UNCHANGED <<flag, idx, scans, sysModules, facadeVars, unitVars, amaVars>>

(***************************************************************************)
(* AMA.compute                                                             *)
(***************************************************************************)

RECURSIVE GCD(_, _)
GCD(a, b) == IF b = 0 THEN a ELSE GCD(b, a % b)

\* not-a-number
NaN == [nan |-> TRUE, n |-> 0, d |-> 1]

\* The float n/d (d > 0), in lowest terms.
Rat(n, d) ==
  LET g == GCD(IF n < 0 THEN -n ELSE n, d)
  IN IF n = 0 THEN [nan |-> FALSE, n |-> 0, d |-> 1]
     ELSE [nan |-> FALSE, n |-> n \div g, d |-> d \div g]

\* Float arithmetic; not-a-number propagates through every operation.
Add(a, b) == IF a.nan \/ b.nan THEN NaN ELSE Rat(a.n * b.d + b.n * a.d, a.d * b.d)
Sub(a, b) == IF a.nan \/ b.nan THEN NaN ELSE Rat(a.n * b.d - b.n * a.d, a.d * b.d)
Mul(a, b) == IF a.nan \/ b.nan THEN NaN ELSE Rat(a.n * b.n, a.d * b.d)
Abs(a)    == IF a.nan THEN NaN ELSE Rat(IF a.n < 0 THEN -a.n ELSE a.n, a.d)

\* a / b for a divisor that is positive or not-a-number.
Div(a, b) == IF a.nan \/ b.nan THEN NaN ELSE Rat(a.n * b.d, a.d * b.n)

\* Series.replace(0, np.nan) on one element.
ReplaceZero(a) == IF ~a.nan /\ a.n = 0 THEN NaN ELSE a

\* Largest price of a bar.
MaxPrice == 2

\* Largest number of bars of the table.
MaxLen == 4

\* Largest lookback period.
MaxPeriod == 2

\* fast_period and slow_period as the caller passes them.
FastPeriod == 1
SlowPeriod == 3

\* The bars of a table: low <= close <= high.
Bars == {b \in [high : 1..MaxPrice, low : 1..MaxPrice, close : 1..MaxPrice] :
           b.low <= b.close /\ b.close <= b.high}

\* The tables of 1..MaxLen bars.
Tables == UNION {[1..n -> Bars] : n \in 1..MaxLen}

SetMax(S) == CHOOSE x \in S : \A y \in S : y <= x
SetMin(S) == CHOOSE x \in S : \A y \in S : x <= y

\* self.data["high"].rolling(self.period).max() at 0-based position j.
highest_high(j) ==
  IF j < period - 1 THEN NaN
  ELSE Rat(SetMax({bars[k + 1].high : k \in (j - period + 1)..j}), 1)

\* self.data["low"].rolling(self.period).min() at 0-based position j.
lowest_low(j) ==
  IF j < period - 1 THEN NaN
  ELSE Rat(SetMin({bars[k + 1].low : k \in (j - period + 1)..j}), 1)

\* close[j]
close(j) == Rat(bars[j + 1].close, 1)

fast_sc == Rat(2, FastPeriod + 1)
slow_sc == Rat(2, SlowPeriod + 1)

\* price_range[j]
price_range(j) == ReplaceZero(Sub(highest_high(j), lowest_low(j)))

\* mltp[j]
mltp(j) ==
  Div(Abs(Sub(Sub(close(j), lowest_low(j)), Sub(highest_high(j), close(j)))),
      price_range(j))

\* cst[j]
cst(j) ==
  LET ssc == Add(Mul(mltp(j), Sub(fast_sc, slow_sc)), slow_sc)
  IN Mul(ssc, ssc)

\* ama = np.zeros(len(close)); ama[0] = close[0]
AMASeed ==
  /\ amaPc = "new"
  /\ ama' = [k \in 1..Len(bars) |-> IF k = 1 THEN close(0) ELSE Rat(0, 1)]
  /\ i' = 1
  /\ amaPc' = "loop"
  /\ UNCHANGED <<bars, period, facadeVars, unitVars, scanVars>>

\* The loop body for i < self.period.
AMAWarmup ==
  /\ amaPc = "loop"
  /\ i < Len(bars)
  /\ i < period
  /\ ama' = [ama EXCEPT ![i + 1] =
               Add(close(i - 1), Mul(cst(i), Sub(close(i), close(i - 1))))]
  /\ i' = i + 1
  /\ UNCHANGED <<bars, period, amaPc, facadeVars, unitVars, scanVars>>

\* The loop body for i >= self.period.
AMARecur ==
  /\ amaPc = "loop"
  /\ i < Len(bars)
  /\ i >= period
  /\ ama' = [ama EXCEPT ![i + 1] =
               Add(ama[i], Mul(cst(i), Sub(close(i), ama[i])))]
  /\ i' = i + 1
  /\ UNCHANGED <<bars, period, amaPc, facadeVars, unitVars, scanVars>>

\* return pd.Series(ama, ...)
AMAReturn ==
  /\ amaPc = "loop"
  /\ i = Len(bars)
  /\ amaPc' = "returned"
  /\ UNCHANGED <<bars, period, ama, i, facadeVars, unitVars, scanVars>>

(***************************************************************************)
(* Specifications                                                          *)
(***************************************************************************)

\* The state before the package is imported and before any object exists.
InitRest ==
  /\ unit = NoUnit
  /\ CONCRETE_INDICATORS = EmptyRegistry
  /\ INDICATORS = EmptyRegistry
  /\ pkg = "unloaded"
  /\ ta = NoTA
  /\ stdCalls = 0
  /\ accesses = 0
  /\ req = NoRequest
  /\ available = NoList
  /\ flag = FALSE
  /\ pc = [t \in Threads |-> "check"]
  /\ idx = [t \in Threads |-> 0]
  /\ scans = 0
  /\ sysModules = {}

Init ==
  /\ InitRest
  /\ bars = <<>>
  /\ period = 1
  /\ ama = <<>>
  /\ i = 0
  /\ amaPc = "none"

\* A session of one caller: package import, registrations, facades and requests.
Next ==
  \/ \E failing \in SUBSET {Modules[k] : k \in 1..Len(Modules)} :
       Cardinality(failing) <= MaxFailing /\ PackageImport(failing)
  \/ \E obj \in RegisterArgs : Register(obj)
  \/ \E ohlc \in InitArgs, series \in InitArgs : NewTA(ohlc, series)
  \/ \E name \in RequestNames, column \in ColumnArgs : Request(name, column)
  \/ ListAvailable

Spec == Init /\ [][Next]_vars

\* Direct construction of indicator objects.
NextUnit ==
  \/ \E cls \in UnitClasses, source \in Sources, column \in ColumnArgs :
       Construct(cls, source, column)
  \/ Compute

SpecUnit == Init /\ [][NextUnit]_vars

\* Concurrent TA constructions after the package import.
NextScan ==
  \/ \E failing \in SUBSET {Modules[k] : k \in 1..Len(Modules)} :
       Cardinality(failing) <= MaxFailing /\ PackageImport(failing)
  \/ \E t \in Threads : CheckFlag(t)
  \/ \E t \in Threads : ImportNext(t)
  \/ \E t \in Threads : SetFlag(t)
  \/ \E t \in Threads : Again(t)

SpecScan == Init /\ [][NextScan]_vars

\* An AMA object on a valid table, before compute().
InitAMA ==
  /\ InitRest
  /\ bars \in Tables
  /\ period \in 1..MaxPeriod
  /\ ama = <<>>
  /\ i = 0
  /\ amaPc = "new"

NextAMA ==
  \/ AMASeed
  \/ AMAWarmup
  \/ AMARecur
  \/ AMAReturn

SpecAMA == InitAMA /\ [][NextAMA]_vars

(***************************************************************************)
(* Properties                                                              *)
(***************************************************************************)

OHLCColumns == {"open", "high", "low", "close"}

\* A class of the OHLC or OHLCV branch.
OHLCDerived(cls) ==
  cls \in Classes /\ (Base[cls] \in {"OHLCIndicator", "OHLCVIndicator"}
                      \/ cls \in {"OHLCIndicator", "OHLCVIndicator"})

\* C1: on a facade built from a series, a request for a registered indicator of
\* the OHLC or OHLCV branch ends with the "requires OHLCV data" error of
\* __getattr__; no wrapper runs, so the unit is not instantiated, its columns are
\* not validated and compute() is not called.
C1_IncompatibleBeforeUnit ==
  (req.source_type = "series" /\ OHLCDerived(req.cls)) =>
    /\ req.err.exc = "ValueError"
    /\ req.err.msg = "requires OHLCV data"
    /\ req.wrapper = "none"
    /\ ~req.constructed
    /\ ~req.validated
    /\ ~req.computeStarted

C1_Witness ==
  /\ ta.source_type = "series"
  /\ req.name = "VPN"
  /\ req.cls = "VPN"
  /\ req.err.msg = "requires OHLCV data"

C3_MissingSetReported ==
  (/\ unit.cls \in {"AMA", "STOCH_MACD"}
   /\ unit.kind = "DataFrame"
   /\ unit.column = DefaultColumn
   /\ OHLCColumns \ unit.data # {}) =>
    /\ unit.err.exc = "ValueError"
    /\ unit.err.msg = "Missing required columns"
    /\ unit.err.missing = OHLCColumns \ unit.data

\* C4: on a table with the four OHLC columns and no volume an OHLCV unit fails
\* with the error naming volume and an OHLC unit is constructed; on a table
\* lacking volume and some OHLC column an OHLCV unit fails with the "Missing
\* required columns" error of the OHLC check, which does not name volume.
C4_VolumeAfterOHLC ==
  (/\ unit.kind = "DataFrame"
   /\ unit.column = DefaultColumn
   /\ "volume" \notin unit.data) =>
    /\ (unit.cls = "VPN" /\ OHLCColumns \subseteq unit.data) =>
         unit.err.exc = "ValueError" /\ unit.err.missing = {"volume"}
    /\ (unit.cls \in {"AMA", "STOCH_MACD"} /\ OHLCColumns \subseteq unit.data) =>
         unit.err.exc = "none"
    /\ (unit.cls = "VPN" /\ ~(OHLCColumns \subseteq unit.data)) =>
         /\ unit.err.exc = "ValueError"
         /\ unit.err.msg = "Missing required columns"
         /\ unit.err.missing = OHLCColumns \ unit.data

\* C5: compute() starts only on a unit whose data has every column its shape
\* contract requires.
C5_ValidatedBeforeCompute ==
  unit.computeStarted => ContractColumns(unit.cls, unit.column) \subseteq unit.data

\* The elements of a sequence.
Range(seq) == {seq[k] : k \in 1..Len(seq)}

C8_ScanAtMostOnce == scans <= 1

\* One of the three taxonomy branches.
InBranch(cls) ==
  \E b \in {"SeriesIndicator", "OHLCIndicator", "OHLCVIndicator"} :
    cls \in Classes /\ cls # b /\ IsSubclass(cls, b)

FlatRange(j) ==
  j >= period - 1 /\ highest_high(j) = lowest_low(j)

\* The rolling range of 0-based bar j is defined and not zero.
OpenRange(j) ==
  j >= period - 1 /\ highest_high(j) # lowest_low(j)

\* C10: when compute() has returned, every bar with a non-zero range that follows
\* a flat-range bar has a defined output (the flat-range bar was skipped and the
\* recursion went on from the output held before it).
C10_DefinedAfterFlatRange ==
  amaPc = "returned" =>
    \A j \in 0..(Len(bars) - 1), k \in 0..(Len(bars) - 1) :
      (j < k /\ FlatRange(j) /\ OpenRange(k)) => ~ama[k + 1].nan

====
